---- MODULE Spec2Model ----
(***************************************************************************)
(* A model of tumdlr/containers.py: the post containers (TumblrPost,       *)
(* TumblrPhotoSet) that parse an API response, and the file containers     *)
(* (TumblrFile, TumblrPhoto) that resolve the path a download is saved to. *)
(*                                                                         *)
(* Python dicts are records with a field "keys" (the keys present) and one *)
(* field per possible key; the field of an absent key holds a fixed        *)
(* default, so that equal dicts are equal records.  The result of          *)
(* dict.get() and every attribute that may be None is an optional value    *)
(* [some, v].  An exception is a record [exc, arg].                        *)
(***************************************************************************)
EXTENDS Integers, Sequences, FiniteSets, TLC

\* The longest photo list of a response.
MaxPhotos == 3

----------------------------------------------------------------------------
\* Python values

\* None, and a value that is not None.
Nothing(default) == [some |-> FALSE, v |-> default]
Some(x) == [some |-> TRUE, v |-> x]

\* page_no is an int or the bool False; False is a bool whose number is 0.
PyFalse == [isbool |-> TRUE, n |-> 0]
PyInt(i) == [isbool |-> FALSE, n |-> i]

\* bool(v) of an int or a bool, as `if self.page_no` takes it.
Truthy(v) == v.n # 0

\* str.format of a value that may be None.
Format(opt) == IF opt.some THEN opt.v ELSE "None"

\* No exception, and an exception with its argument.
NoExc == [exc |-> "", arg |-> ""]
Raise(e, a) == [exc |-> e, arg |-> a]

----------------------------------------------------------------------------
\* The API response: its size records, photo records and post mapping

\* A size record {'url': u, 'width': w, 'height': w} as the API sends it.
Size(u, w) ==
    [keys |-> {"url", "width", "height"}, url |-> u, width |-> w, height |-> w,
     page_no |-> PyFalse]

\* A size record without its url, and the empty dict.
SizeNoUrl(w) ==
    [keys |-> {"width", "height"}, url |-> "", width |-> w, height |-> w,
     page_no |-> PyFalse]
EmptySize ==
    [keys |-> {}, url |-> "", width |-> 0, height |-> 0, page_no |-> PyFalse]

\* best_size['page_no'] = v
SetPageNo(size, v) == [size EXCEPT !.keys = @ \cup {"page_no"}, !.page_no = v]

\* A photo record {'original_size': o, 'alt_sizes': a} holding the keys ks.
Photo(ks, o, a) ==
    [keys |-> ks,
     original_size |-> IF "original_size" \in ks THEN o ELSE EmptySize,
     alt_sizes |-> IF "alt_sizes" \in ks THEN a ELSE << >>]

AltSizes ==
    << Size("http://m.t/s100.jpg", 100), Size("http://m.t/s400.jpg", 400),
       Size("http://m.t/s250.jpg", 250) >>
TiedSizes ==
    << Size("http://m.t/t100.jpg", 100), Size("http://m.t/first400.png", 400),
       Size("http://m.t/second400.png", 400) >>

\* The photo records a response is drawn from.
PhotoRecords ==
    { Photo({"original_size", "alt_sizes"}, Size("http://m.t/a.jpg", 500), AltSizes),
      Photo({"original_size", "alt_sizes"}, Size("http://m.t/b.GIF", 100), AltSizes),
      Photo({"alt_sizes"}, EmptySize, AltSizes),
      Photo({"alt_sizes"}, EmptySize, TiedSizes),
      Photo({"alt_sizes"}, EmptySize, << >>),
      Photo({}, EmptySize, << >>),
      Photo({"original_size", "alt_sizes"}, SizeNoUrl(500), AltSizes),
      Photo({"original_size", "alt_sizes"}, EmptySize, AltSizes) }

PhotoLists == UNION { [1..n -> PhotoRecords] : n \in 0..MaxPhotos }

RequiredKeys == {"id", "type", "date"}
OptionalKeys == {"post_url", "tags", "note_count"}
TitleKeys == {"caption", "title"}

\* The response mapping holding the keys ks and the photo list ps.
Response(ks, ps) ==
    [keys |-> ks,
     id |-> IF "id" \in ks THEN 42 ELSE 0,
     type |-> IF "type" \in ks THEN "photo" ELSE "",
     date |-> IF "date" \in ks THEN "2016-03-01 12:00:00 GMT" ELSE "",
     post_url |-> IF "post_url" \in ks THEN "http://example.tumblr.com/post/42" ELSE "",
     tags |-> IF "tags" \in ks THEN {"art", "sea"} ELSE {},
     note_count |-> IF "note_count" \in ks THEN 7 ELSE 0,
     caption |-> IF "caption" \in ks THEN "Trip" ELSE "",
     title |-> IF "title" \in ks THEN "Sunset" ELSE "",
     photos |-> IF "photos" \in ks THEN ps ELSE << >>]

\* The responses a run starts from: every choice of the base keys without
\* photos, and every photo list and choice of caption and title on a
\* response holding all the base keys.
Responses ==
    { Response(ks, << >>) : ks \in SUBSET (RequiredKeys \cup OptionalKeys) }
    \cup
    { Response(RequiredKeys \cup OptionalKeys \cup ts \cup {"photos"}, ps) :
        ts \in SUBSET TitleKeys, ps \in PhotoLists }

\* The name of the blog the response came from: one the sanitizer changes.
BlogNames == {"ex/ample"}

----------------------------------------------------------------------------
\* TumblrPost

\* No object: the constructor raised, or none was called yet.
NoPost == [cls |-> "none"]

\* TumblrPost._parse_post with the date read as an optional key.
TumblrPost__parse_post_DateOptional(post) ==
    IF "id" \notin post.keys THEN [raised |-> Raise("KeyError", "id")]
    ELSE IF "type" \notin post.keys THEN [raised |-> Raise("KeyError", "type")]
    ELSE [raised |-> NoExc,
          id |-> post.id,
          type |-> post.type,
          url |-> IF "post_url" \in post.keys THEN Some(post.post_url) ELSE Nothing(""),
          tags |-> IF "tags" \in post.keys THEN post.tags ELSE {},
          note_count |-> IF "note_count" \in post.keys THEN Some(post.note_count)
                         ELSE Nothing(0),
          post_date |-> post.date]

\* TumblrPost._parse_post: the fields read from the response, or the
\* KeyError of the first required key that is missing.
TumblrPost__parse_post(post) ==
    IF "id" \notin post.keys THEN [raised |-> Raise("KeyError", "id")]
    ELSE IF "type" \notin post.keys THEN [raised |-> Raise("KeyError", "type")]
    ELSE IF "date" \notin post.keys THEN [raised |-> Raise("KeyError", "date")]
    ELSE [raised |-> NoExc,
          id |-> post.id,
          type |-> post.type,
          url |-> IF "post_url" \in post.keys THEN Some(post.post_url) ELSE Nothing(""),
          tags |-> IF "tags" \in post.keys THEN post.tags ELSE {},
          note_count |-> IF "note_count" \in post.keys THEN Some(post.note_count)
                         ELSE Nothing(0),
          post_date |-> post.date]

\* The object a constructor builds from the parsed fields.
PostObject(cls, blog, parsed, title, files) ==
    [cls |-> cls, blog |-> blog, id |-> parsed.id, type |-> parsed.type,
     url |-> parsed.url, tags |-> parsed.tags, note_count |-> parsed.note_count,
     post_date |-> parsed.post_date, title |-> title, files |-> files]

\* TumblrPost(post, blog): the object, or the exception of _parse_post.  The
\* response is only read.
TumblrPost__init__(post, blog) ==
    LET parsed == TumblrPost__parse_post(post) IN
    IF parsed.raised # NoExc
    THEN [raised |-> parsed.raised, obj |-> NoPost, post |-> post]
    ELSE [raised |-> NoExc,
          obj |-> PostObject("TumblrPost", blog, parsed, Nothing(""), << >>),
          post |-> post]

\* The classification properties.
is_text(obj) == obj.type = "text"
is_photo(obj) == obj.type \in {"photo", "link"}
is_video(obj) == obj.type = "video"

----------------------------------------------------------------------------
\* TumblrPhoto construction

\* TumblrFile.__init__ and TumblrPhoto.__init__: URL(data['url']) raises
\* KeyError without a url; width, height and page_no are read with get().
TumblrPhoto__init__(data) ==
    IF "url" \notin data.keys
    THEN [raised |-> Raise("KeyError", "url")]
    ELSE [raised |-> NoExc,
          obj |-> [type |-> "photos",
                   url |-> data.url,
                   width |-> IF "width" \in data.keys THEN Some(data.width)
                             ELSE Nothing(0),
                   height |-> IF "height" \in data.keys THEN Some(data.height)
                              ELSE Nothing(0),
                   page_no |-> IF "page_no" \in data.keys THEN data.page_no
                               ELSE PyFalse]]

----------------------------------------------------------------------------
\* TumblrPhotoSet

\* The first index of items holding the largest width.
ArgMaxWidth(items) ==
    CHOOSE i \in 1..Len(items) :
        /\ \A j \in 1..Len(items) : items[j].width <= items[i].width
        /\ \A j \in 1..(i - 1) : items[j].width < items[i].width

\* The builtin max(items, key=key): ValueError on an empty sequence; the key
\* is called on the first item, which raises TypeError when it is no callable;
\* otherwise the first item with the largest key.
PyMax(items, keyIsCallable) ==
    IF Len(items) = 0 THEN [raised |-> Raise("ValueError", "max() arg is an empty sequence"), index |-> 0]
    ELSE IF ~keyIsCallable
    THEN [raised |-> Raise("TypeError", "'str' object is not callable"), index |-> 0]
    ELSE [raised |-> NoExc, index |-> ArgMaxWidth(items)]

\* A dict is true when it is not empty.
DictTruthy(d) == d.keys # {}

\* photo.get('original_size') or max(photo['alt_sizes'], key='width'): where
\* the best size lies in the photo record (index 0: its original_size), or the
\* exception.  The key handed to max is the string 'width', no callable.
BestSize(photo) ==
    IF "original_size" \in photo.keys /\ DictTruthy(photo.original_size)
    THEN [raised |-> NoExc, index |-> 0]
    ELSE IF "alt_sizes" \notin photo.keys
    THEN [raised |-> Raise("KeyError", "alt_sizes"), index |-> 0]
    ELSE PyMax(photo.alt_sizes, FALSE)

\* is_photoset taken from a list that is not empty.
IsPhotoset_NotEmpty(photos) == Len(photos) >= 1

\* is_photoset = (len(photos) > 1)
IsPhotoset(photos) == Len(photos) > 1

\* The page number written into the best size of the photo at page_no.
PageNoOf(page_no, is_photoset) == IF is_photoset THEN PyInt(page_no) ELSE PyFalse

\* The size record at index of a photo record, and the photo record with it
\* replaced: best_size is the record of the response itself, not a copy.
SizeAt(photo, index) ==
    IF index = 0 THEN photo.original_size ELSE photo.alt_sizes[index]
WithSizeAt(photo, index, size) ==
    IF index = 0 THEN [photo EXCEPT !.original_size = size]
    ELSE [photo EXCEPT !.alt_sizes[index] = size]

\* The loop over enumerate(photos, 1) from page_no on: the photo list as the
\* loop leaves it, the files appended, and the exception that ended it early.
RECURSIVE ParsePhotos(_, _, _, _)
ParsePhotos(photos, page_no, is_photoset, files) ==
    IF page_no > Len(photos)
    THEN [raised |-> NoExc, photos |-> photos, files |-> files]
    ELSE
      LET best == BestSize(photos[page_no]) IN
      IF best.raised # NoExc
      THEN [raised |-> best.raised, photos |-> photos, files |-> files]
      ELSE
        LET best_size == SetPageNo(SizeAt(photos[page_no], best.index),
                                   PageNoOf(page_no, is_photoset))
            written == [photos EXCEPT
                          ![page_no] = WithSizeAt(@, best.index, best_size)]
            file == TumblrPhoto__init__(best_size)
        IN IF file.raised # NoExc
           THEN [raised |-> file.raised, photos |-> written, files |-> files]
           ELSE ParsePhotos(written, page_no + 1, is_photoset,
                            Append(files, file.obj))

\* self._post.get('caption', self._post.get('title'))
TitleOf(post) ==
    IF "caption" \in post.keys THEN Some(post.caption)
    ELSE IF "title" \in post.keys THEN Some(post.title)
    ELSE Nothing("")

\* TumblrPhotoSet._parse_post: the base fields, the title and the files, with
\* the response as the loop leaves it.
TumblrPhotoSet__parse_post(post) ==
    LET parsed == TumblrPost__parse_post(post) IN
    IF parsed.raised # NoExc
    THEN [raised |-> parsed.raised, post |-> post]
    ELSE
      LET photos == IF "photos" \in post.keys THEN post.photos ELSE << >>
          loop == ParsePhotos(photos, 1, IsPhotoset(photos), << >>)
          after == IF "photos" \in post.keys
                   THEN [post EXCEPT !.photos = loop.photos] ELSE post
      IN [raised |-> loop.raised, post |-> after, parsed |-> parsed,
          title |-> TitleOf(post), files |-> loop.files]

\* TumblrPhotoSet(post, blog): TumblrPost.__init__ runs _parse_post, and the
\* constructor then sets self.title = None.
TumblrPhotoSet__init__(post, blog) ==
    LET p == TumblrPhotoSet__parse_post(post) IN
    IF p.raised # NoExc
    THEN [raised |-> p.raised, obj |-> NoPost, post |-> p.post]
    ELSE [raised |-> NoExc,
          obj |-> PostObject("TumblrPhotoSet", blog, p.parsed, Nothing(""), p.files),
          post |-> p.post]

----------------------------------------------------------------------------
\* The collaborators of path resolution

\* name with every path separator left out.
RECURSIVE DropSeparators(_, _)
DropSeparators(name, i) ==
    IF i > Len(name) THEN ""
    ELSE (IF SubSeq(name, i, i) \in {"/", "\\"} THEN "" ELSE SubSeq(name, i, i))
         \o DropSeparators(name, i + 1)

\* tumdlr.downloader.sanitize_filename: a string safe as one path segment.
sanitize_filename(name) == DropSeparators(name, 1)

\* The last index of s holding the character c, 0 when there is none.
RECURSIVE RFind(_, _, _)
RFind(s, c, i) ==
    IF i = 0 THEN 0
    ELSE IF SubSeq(s, i, i) = c THEN i
    ELSE RFind(s, c, i - 1)

\* Whether s holds a character other than '.' in from..(to - 1).
RECURSIVE HasNonDot(_, _, _)
HasNonDot(s, from, to) ==
    IF from >= to THEN FALSE
    ELSE IF SubSeq(s, from, from) # "." THEN TRUE
    ELSE HasNonDot(s, from + 1, to)

\* os.path.splitext(p)[1]: from the last dot of the last component on, when
\* a character other than a dot comes before it in that component.
splitext_ext(p) ==
    LET sep == RFind(p, "/", Len(p))
        dot == RFind(p, ".", Len(p))
    IN IF dot > sep /\ HasNonDot(p, sep + 1, dot)
       THEN SubSeq(p, dot, Len(p)) ELSE ""

\* Path.joinpath(segment) as str() shows it: an empty segment adds nothing.
joinpath(base, segment) ==
    IF segment = "" THEN base ELSE base \o "/" \o segment

----------------------------------------------------------------------------
\* The request context and the request data

\* context.config: the save path and the three categorization switches.
Contexts ==
    [SavePath : {"/out"}, User : BOOLEAN, PostType : BOOLEAN, Photosets : BOOLEAN]

\* request_data['progress_data']: the annotations shown while downloading.
Progress(ks, caption, page) ==
    [keys |-> ks,
     Caption |-> IF "Caption" \in ks THEN caption ELSE Nothing(""),
     PhotosetPage |-> IF "Photoset Page" \in ks THEN page ELSE ""]

\* request_data, with or without its 'progress_data'.
RequestData(has, progress) ==
    [keys |-> IF has THEN {"progress_data"} ELSE {},
     progress_data |-> IF has THEN progress ELSE Progress({}, Nothing(""), "")]

\* The request data a caller of filepath hands in: without annotations, or
\* holding those of an earlier download.
RequestDatas ==
    { RequestData(TRUE, Progress({}, Nothing(""), "")),
      RequestData(TRUE, Progress({"Caption", "Photoset Page"}, Some("Old"), "9 / 9")) }

\* The keyword arguments a caller of download hands in: none, or a
\* progress_data without annotations.
Kwargs ==
    { RequestData(FALSE, Progress({}, Nothing(""), "")),
      RequestData(TRUE, Progress({}, Nothing(""), "")) }

----------------------------------------------------------------------------
\* Path resolution

\* TumblrFile.filepath(self, context, request_data), called with or without
\* its request_data argument: a call that leaves a positional argument out
\* raises TypeError before the body runs.
TumblrFile__filepath(container, context, passesRequestData) ==
    IF ~passesRequestData
    THEN [raised |-> Raise("TypeError",
                           "filepath() missing 1 required positional argument: 'request_data'"),
          path |-> ""]
    ELSE
      LET root == context.SavePath
          user == IF context.User
                  THEN joinpath(root, sanitize_filename(container.blog)) ELSE root
          type == IF context.PostType THEN joinpath(user, "photos") ELSE user
      IN [raised |-> NoExc, path |-> type]

\* The file name of a photo: 'p{pn}_{pt}' with a page number, else the title.
\* sanitize_filename takes a string; the title None raises TypeError in it.
PhotoFilename(photo, container) ==
    IF Truthy(photo.page_no)
    THEN [raised |-> NoExc,
          name |-> sanitize_filename("p" \o ToString(photo.page_no.n) \o "_"
                                     \o Format(container.title))]
    ELSE IF ~container.title.some
    THEN [raised |-> Raise("TypeError", "expected string or bytes-like object"),
          name |-> ""]
    ELSE [raised |-> NoExc, name |-> sanitize_filename(container.title.v)]

\* The failed call: the exception, no return value, the request data as the
\* call leaves it.
Failed(exception, request_data) ==
    [raised |-> exception, returned |-> Nothing(""), request_data |-> request_data]

\* TumblrPhoto.filepath(context, request_data).  The base directory is asked
\* for as super().filepath(context), without request_data.
TumblrPhoto__filepath(photo, container, context, request_data) ==
    IF container.cls # "TumblrPhotoSet"
    THEN Failed(Raise("AssertionError", ""), request_data)
    ELSE
      LET base == TumblrFile__filepath(container, context, FALSE) IN
      IF base.raised # NoExc THEN Failed(base.raised, request_data)
      ELSE IF "progress_data" \notin request_data.keys
      THEN Failed(Raise("KeyError", "progress_data"), request_data)
      ELSE
        LET captioned ==
              [request_data EXCEPT
                 !.progress_data.keys = @ \cup {"Caption"},
                 !.progress_data.Caption = container.title]
            dir == IF Truthy(photo.page_no) /\ context.Photosets
                   THEN joinpath(base.path, sanitize_filename(ToString(container.id)))
                   ELSE base.path
            file == PhotoFilename(photo, container)
            paged ==
              IF Truthy(photo.page_no)
              THEN [captioned EXCEPT
                      !.progress_data.keys = @ \cup {"Photoset Page"},
                      !.progress_data.PhotosetPage =
                          ToString(photo.page_no.n) \o " / "
                          \o ToString(Len(container.files))]
              ELSE captioned
        IN IF file.raised # NoExc THEN Failed(file.raised, captioned)
           ELSE [raised |-> NoExc,
                 returned |-> Some(joinpath(dir, file.name) \o splitext_ext(photo.url)),
                 request_data |-> paged]

\* No call of the download collaborator, and the call download(url, path).
NoTransfer == [made |-> FALSE, url |-> "", path |-> ""]
Transfer(url, path) == [made |-> TRUE, url |-> url, path |-> path]

\* TumblrFile.download(context, **kwargs): the path is resolved with kwargs
\* as the request data and handed to the collaborator; nothing is returned.
TumblrFile__download(photo, container, context, kwargs) ==
    LET resolved == TumblrPhoto__filepath(photo, container, context, kwargs) IN
    [raised |-> resolved.raised,
     returned |-> Nothing(""),
     request_data |-> resolved.request_data,
     transfer |-> IF resolved.raised = NoExc
                  THEN Transfer(photo.url, resolved.returned.v) ELSE NoTransfer]

----------------------------------------------------------------------------
\* The program: a caller that holds one response, builds containers from it
\* and resolves the paths of their files

VARIABLES
    response,      \* the raw response mapping the caller holds
    post,          \* the container last built from it, or NoPost
    op,            \* the operation last run
    raised,        \* the exception it ended in, or NoExc
    call,          \* the arguments of the last filepath or download
    returned,      \* what the last operation returned
    request_data,  \* the caller's request data as the last call left it
    transfer       \* the call made to the download collaborator

vars == << response, post, op, raised, call, returned, request_data, transfer >>

NoRequestData == RequestData(FALSE, Progress({}, Nothing(""), ""))
NoCall ==
    [photo |-> 0,
     context |-> [SavePath |-> "", User |-> FALSE, PostType |-> FALSE,
                  Photosets |-> FALSE],
     data |-> NoRequestData]

Init ==
    /\ response \in Responses
    /\ post = NoPost
    /\ op = "none"
    /\ raised = NoExc
    /\ call = NoCall
    /\ returned = Nothing("")
    /\ request_data = NoRequestData
    /\ transfer = NoTransfer

\* post = TumblrPost(response, blog)
NewTumblrPost(blog) ==
    LET r == TumblrPost__init__(response, blog) IN
    /\ response' = r.post
    /\ post' = r.obj
    /\ op' = "TumblrPost"
    /\ raised' = r.raised
    /\ call' = NoCall
    /\ returned' = Nothing("")
    /\ request_data' = NoRequestData
    /\ transfer' = NoTransfer

\* post = TumblrPhotoSet(response, blog)
NewTumblrPhotoSet(blog) ==
    LET r == TumblrPhotoSet__init__(response, blog) IN
    /\ response' = r.post
    /\ post' = r.obj
    /\ op' = "TumblrPhotoSet"
    /\ raised' = r.raised
    /\ call' = NoCall
    /\ returned' = Nothing("")
    /\ request_data' = NoRequestData
    /\ transfer' = NoTransfer

\* post.files[i].filepath(context, data)
Filepath(i, context, data) ==
    /\ post.cls = "TumblrPhotoSet"
    /\ i \in 1..Len(post.files)
    /\ LET r == TumblrPhoto__filepath(post.files[i], post, context, data) IN
       /\ op' = "filepath"
       /\ raised' = r.raised
       /\ call' = [photo |-> i, context |-> context, data |-> data]
       /\ returned' = r.returned
       /\ request_data' = r.request_data
       /\ transfer' = NoTransfer
    /\ UNCHANGED << response, post >>

\* post.files[i].download(context, **kwargs)
Download(i, context, kwargs) ==
    /\ post.cls = "TumblrPhotoSet"
    /\ i \in 1..Len(post.files)
    /\ LET r == TumblrFile__download(post.files[i], post, context, kwargs) IN
       /\ op' = "download"
       /\ raised' = r.raised
       /\ call' = [photo |-> i, context |-> context, data |-> kwargs]
       /\ returned' = r.returned
       /\ request_data' = r.request_data
       /\ transfer' = r.transfer
    /\ UNCHANGED << response, post >>

Next ==
    \/ \E blog \in BlogNames : NewTumblrPost(blog)
    \/ \E blog \in BlogNames : NewTumblrPhotoSet(blog)
    \/ \E i \in 1..MaxPhotos, context \in Contexts, data \in RequestDatas :
         Filepath(i, context, data)
    \/ \E i \in 1..MaxPhotos, context \in Contexts, kwargs \in Kwargs :
         Download(i, context, kwargs)

Spec == Init /\ [][Next]_vars

----------------------------------------------------------------------------
\* Path composition as the categorization rules give it

\* The path of a photo titled title: the save root, the blog, "photos", the
\* post id of a paged photo, the file name, the extension of the url.
ClaimedPath(photo, container, title, context) ==
    LET root == context.SavePath
        user == IF context.User
                THEN joinpath(root, sanitize_filename(container.blog)) ELSE root
        type == IF context.PostType THEN joinpath(user, "photos") ELSE user
        set == IF Truthy(photo.page_no) /\ context.Photosets
               THEN joinpath(type, sanitize_filename(ToString(container.id)))
               ELSE type
        name == IF Truthy(photo.page_no)
                THEN sanitize_filename("p" \o ToString(photo.page_no.n) \o "_" \o title)
                ELSE sanitize_filename(title)
    IN joinpath(set, name) \o splitext_ext(photo.url)

\* C1: every path resolution of a photo returns the save root, the
\* sanitized blog name iff categorizing by user, "photos" iff categorizing by
\* post type, the sanitized post id iff the photo has a page number and
\* photosets are categorized, then "p<page>_<title>" or the title alone, then
\* the extension of the source url.
C1_PathComposition ==
    (op = "filepath" /\ TitleOf(response).some) =>
        /\ returned.some
        /\ returned.v = ClaimedPath(post.files[call.photo], post,
                                    TitleOf(response).v, call.context)

\* The urls of the sizes of a photo record.
SizeUrls(photo) ==
    (IF "url" \in photo.original_size.keys THEN {photo.original_size.url} ELSE {})
    \cup { photo.alt_sizes[j].url : j \in 1..Len(photo.alt_sizes) }

\* C2: a photo set parsed from N photos has N files in source order; with
\* N > 1 the i-th file carries the page number i, with N = 1 the file carries
\* False, which is neither page 1 nor the number 0.
C2_PageNumbers ==
    post.cls = "TumblrPhotoSet" =>
        LET N == Len(response.photos) IN
        /\ Len(post.files) = N
        /\ \A i \in 1..N : post.files[i].url \in SizeUrls(response.photos[i])
        /\ N > 1 => \A i \in 1..N : post.files[i].page_no = PyInt(i)
        /\ N = 1 => /\ post.files[1].page_no = PyFalse
                    /\ post.files[1].page_no \notin {PyInt(0), PyInt(1)}

\* A photo set of several photos has been parsed.
C2_Witness == post.cls = "TumblrPhotoSet" /\ Len(post.files) > 1

\* The size the selection rule names: original_size when present, else the
\* first alternate size of the largest width.
ClaimedBest(photo) ==
    IF "original_size" \in photo.keys THEN photo.original_size
    ELSE photo.alt_sizes[ArgMaxWidth(photo.alt_sizes)]

\* A photo record the selection rule can serve with a size that has a url.
Selectable(photo) ==
    /\ "original_size" \in photo.keys \/ Len(photo.alt_sizes) > 0
    /\ "url" \in ClaimedBest(photo).keys

\* C3: the file of every photo record is built from its original_size when
\* present, else from the first alternate size of the largest width.
C3_BestSize ==
    ( /\ op = "TumblrPhotoSet"
      /\ RequiredKeys \subseteq response.keys
      /\ \A k \in 1..Len(response.photos) : Selectable(response.photos[k]) ) =>
        /\ post.cls = "TumblrPhotoSet"
        /\ Len(post.files) = Len(response.photos)
        /\ \A k \in 1..Len(response.photos) :
             post.files[k].url = ClaimedBest(response.photos[k]).url

\* C4: the title of a constructed photo set is the caption of the response
\* when it has one, else its title when it has one, and unset otherwise.
C4_Title == post.cls = "TumblrPhotoSet" => post.title = TitleOf(response)

\* C5: TumblrPost parsing succeeds exactly when id, type and date are
\* present; the three fields then equal the input, tags defaults to the empty
\* set and url to absent; otherwise it raises the KeyError of a missing key.
C5_PostParsing ==
    op = "TumblrPost" =>
        IF RequiredKeys \subseteq response.keys
        THEN /\ raised = NoExc
             /\ post.cls = "TumblrPost"
             /\ post.id = response.id
             /\ post.type = response.type
             /\ post.post_date = response.date
             /\ "tags" \notin response.keys => post.tags = {}
             /\ "tags" \in response.keys => post.tags = response.tags
             /\ post.url.some <=> "post_url" \in response.keys
             /\ post.note_count.some <=> "note_count" \in response.keys
        ELSE /\ post = NoPost
             /\ raised.exc = "KeyError"
             /\ raised.arg \in RequiredKeys \ response.keys

\* A post has been parsed from a response without tags and post_url.
C5_Witness ==
    /\ op = "TumblrPost"
    /\ post.cls = "TumblrPost"
    /\ response.keys \cap {"tags", "post_url"} = {}

\* Two contexts that differ in the photoset switch alone.
DifferInPhotosets(c, d) == [c EXCEPT !.Photosets = ~@] = d

\* C6: for one photo and save root, categorizing by user alone gives the
\* path of no categorization with the sanitized blog name inserted after the
\* root, and for a photo without a page number the photoset switch does not
\* change the path.
C6_TogglesIndependent ==
    [][ ( /\ op = "filepath" /\ op' = "filepath"
          /\ call'.photo = call.photo ) =>
        LET root == call.context.SavePath
            off == [SavePath |-> root, User |-> FALSE, PostType |-> FALSE,
                    Photosets |-> FALSE]
            rest == SubSeq(returned.v, Len(root) + 1, Len(returned.v))
        IN /\ (call.context = off /\ call'.context = [off EXCEPT !.User = TRUE]) =>
                /\ returned.some /\ returned'.some
                /\ returned'.v = joinpath(root, sanitize_filename(post.blog)) \o rest
           /\ ( /\ ~Truthy(post.files[call.photo].page_no)
                /\ DifferInPhotosets(call.context, call'.context) ) =>
                /\ returned.some /\ returned'.some
                /\ returned' = returned ]_vars

\* C7: two successive path resolutions of one photo under one context return
\* the same path, whatever the progress structure held.
C7_Deterministic ==
    [][ ( /\ op = "filepath" /\ op' = "filepath"
          /\ call'.photo = call.photo /\ call'.context = call.context ) =>
        /\ returned.some /\ returned'.some
        /\ returned' = returned ]_vars

\* C8: path resolution for a photo whose photo set has no title raises the
\* error naming the unresolved title and returns no path.
C8_UnsetTitle ==
    (op = "filepath" /\ ~post.title.some) =>
        /\ raised.exc = "UnresolvedTitle"
        /\ ~returned.some

\* C9: path resolution records the Caption annotation, the title of the
\* photo set, in the progress structure handed in, and the annotation
\* "<page> / <photos in the set>" exactly for a photo with a page number.
C9_Annotations ==
    (op = "filepath" /\ "progress_data" \in request_data.keys) =>
        LET progress == request_data.progress_data
            photo == post.files[call.photo]
        IN /\ "Caption" \in progress.keys
           /\ progress.Caption = post.title
           /\ Truthy(photo.page_no) =>
                /\ "Photoset Page" \in progress.keys
                /\ progress.PhotosetPage =
                     ToString(photo.page_no.n) \o " / " \o ToString(Len(post.files))
           /\ ~Truthy(photo.page_no) =>
                /\ "Photoset Page" \in progress.keys
                      <=> "Photoset Page" \in call.data.progress_data.keys
                /\ progress.PhotosetPage = call.data.progress_data.PhotosetPage

\* C10: building a container leaves the response mapping, with every photo
\* and size record in it, as it was.
C10_ResponseUnchanged == [][response' = response]_vars

====
